---- MODULE Spec2Model ----
(***************************************************************************)
(* Device lifecycle and callback router of the mini_al Go binding          *)
(* (package mini_al, src/unnamed/part_000).                                *)
(*                                                                         *)
(* The Go file is modelled line by line: the four package-level handler    *)
(* variables, the three exported callbacks and the Device methods.  The C  *)
(* library the methods forward to (mal_context_*, mal_device_*,            *)
(* mal_get_bytes_per_sample) and errorFromResult are not part of the       *)
(* available source; they are modelled from the written specification      *)
(* (section 4 and 5) and are marked as such where they are defined.        *)
(*                                                                         *)
(* Two threads act on the state: the application thread, which calls the   *)
(* Device methods one at a time, and one backend thread per started        *)
(* device, which calls goSendCallback / goRecvCallback / goStopCallback.   *)
(* A callback that runs while the application thread is blocked inside     *)
(* Start, Stop or Uninit is part of that method's step.  A steady-state    *)
(* callback is two steps, because it reads the handler variable twice      *)
(* (the nil test and the call) with no synchronisation.                    *)
(***************************************************************************)
EXTENDS Integers, Sequences, FiniteSets, TLC

(***************************************************************************)
(* Values                                                                  *)
(***************************************************************************)
Nil == "nil"

\* The two Device objects of the model.
DeviceSet == {"d1", "d2"}

\* Application functions that can be registered as handlers.
Procs == {"h1", "h2"}

\* The functions of each handler type the application registers: two
\* SendProc functions, one RecvProc and one StopProc function.
SendProcs == Procs
RecvProcs == {"h1"}
StopProcs == {"h1"}

\* Application functions that can be registered as the log handler.
LogProcs == {"log"}

Playback == "Playback"
Capture == "Capture"
DeviceTypes == {Playback, Capture}

Success == "Success"

\* How many devices of one kind the backend has when it has any.
MaxHw == 1

\* Cap of the count of releases of one device's backend resources.
MaxFrees == 2

(***************************************************************************)
(* uint32 values are pairs <<hi, lo>> of 16-bit limbs, so that products    *)
(* beyond 2^31 can be computed exactly and reduced modulo 2^32.            *)
(***************************************************************************)
Limb == 65536

U32(hi, lo) == <<hi, lo>>

Zero32 == U32(0, 0)

\* x * c without reduction (c small: a channel count or a sample width).
MulExact(x, c) ==
    LET p == x[2] * c
    IN  <<x[1] * c + (p \div Limb), p % Limb>>

\* Reduction modulo 2^32.
Wrap32(x) == <<x[1] % Limb, x[2]>>

\* uint32 multiplication as Go computes it.
Mul32(x, c) == Wrap32(MulExact(x, c))

\* x > 1 << 20
ExceedsArray(x) == x[1] > 16 \/ (x[1] = 16 /\ x[2] > 0)

(***************************************************************************)
(* Formats and configurations                                              *)
(***************************************************************************)
FormatUnknown == "Unknown"

FormatTypes == {"U8", "S16", "S24", "S32", "F32"}

\* Byte width of one sample of a format (C library, modelled from the
\* FormatType enumeration of the specification).
mal_get_bytes_per_sample(format) ==
    CASE format = "U8"  -> 1
      [] format = "S16" -> 2
      [] format = "S24" -> 3
      [] format = "S32" -> 4
      [] format = "F32" -> 4
      [] OTHER          -> 0

\* The frames of one buffer period when the configuration asks for nothing
\* special.
OrdinaryFrames == U32(0, 1024)

\* The configurations the backend advertises as supported: every format,
\* mono and stereo, with an ordinary buffer.
SupportedConfigs ==
    { [format |-> "U8",  channels |-> 1, sampleRate |-> 44100,
       bufferSizeInFrames |-> OrdinaryFrames],
      [format |-> "S16", channels |-> 2, sampleRate |-> 44100,
       bufferSizeInFrames |-> OrdinaryFrames],
      [format |-> "S24", channels |-> 2, sampleRate |-> 48000,
       bufferSizeInFrames |-> OrdinaryFrames],
      [format |-> "S32", channels |-> 1, sampleRate |-> 48000,
       bufferSizeInFrames |-> OrdinaryFrames],
      [format |-> "F32", channels |-> 2, sampleRate |-> 48000,
       bufferSizeInFrames |-> OrdinaryFrames] }

\* Configurations that ask for a large buffer: 2^18 frames (an extent of
\* exactly 2^20 bytes, and one of 2^21 bytes) and 2^30 frames (an extent of
\* 2^32 bytes).
LargeBufferConfigs ==
    { [format |-> "S32", channels |-> 1, sampleRate |-> 48000,
       bufferSizeInFrames |-> U32(4, 0)],
      [format |-> "F32", channels |-> 2, sampleRate |-> 48000,
       bufferSizeInFrames |-> U32(4, 0)],
      [format |-> "S16", channels |-> 2, sampleRate |-> 44100,
       bufferSizeInFrames |-> U32(16384, 0)] }

\* A configuration no backend supports.
BadConfig ==
    [format |-> FormatUnknown, channels |-> 0, sampleRate |-> 0,
     bufferSizeInFrames |-> Zero32]

DeviceConfigs == SupportedConfigs \cup LargeBufferConfigs \cup {BadConfig}

\* A mal_device that is not initialized (the zeroed object).
ZeroDevice ==
    [state |-> "Uninitialized", type |-> Playback, format |-> FormatUnknown,
     channels |-> 0, sampleRate |-> 0, bufferSizeInFrames |-> Zero32]

\* What a Send handler may return for a request of F frames.
SendReturns(F) == { Zero32, U32(0, 1), F }

(***************************************************************************)
(* State                                                                   *)
(***************************************************************************)
VARIABLES
    active,              \* the Device objects the application has created
    recvHandler,         \* package variable recvHandler
    sendHandler,         \* package variable sendHandler
    stopHandler,         \* package variable stopHandler
    logHandler,          \* package variable logHandler
    registered,          \* per device: the handlers last registered through it
    contextInitialized,  \* the mal_context behind Device.context
    hw,                  \* devices the backend has, per kind
    dev,                 \* the mal_device behind each Device.device
    cb,                  \* the backend thread of each device: callback in progress
    crashed,             \* the process died of a run-time panic
    ev,                  \* what the last step did: operation, result, handler calls
    frees,               \* releases of backend resources since the device's last Init
    events,              \* per device: order of the first handler call and the first
                         \* presentation of samples since its last Start
    phase                \* per device: progress along Init, Start, Stop, Uninit
                         \* with a supported configuration of ordinary buffer

handlers == <<recvHandler, sendHandler, stopHandler, logHandler, registered>>

context == <<contextInitialized, hw>>

vars == <<active, recvHandler, sendHandler, stopHandler, logHandler, registered,
          contextInitialized, hw, dev, cb, crashed, ev, frees, events, phase>>

Idle == [pc |-> "idle", h |-> Nil]

NoDevice == "none"

\* The record of one step.
Event(op, d, err, pre, calls, val) ==
    [op |-> op, d |-> d, err |-> err, pre |-> pre, calls |-> calls, val |-> val]

\* One invocation of an application handler.
HandlerCall(kind, h, frameCount, len, ret) ==
    [kind |-> kind, h |-> h, frameCount |-> frameCount, len |-> len, ret |-> ret]

\* The state after NewDevice has been called for the devices of D.
Created(D) ==
    /\ active = D
    /\ recvHandler = Nil
    /\ sendHandler = Nil
    /\ stopHandler = Nil
    /\ logHandler = Nil
    /\ registered = [d \in DeviceSet |-> [recv |-> Nil, send |-> Nil, stop |-> Nil]]
    /\ contextInitialized = FALSE
    /\ hw \in [DeviceTypes -> {0, MaxHw}]
    /\ dev = [d \in DeviceSet |-> ZeroDevice]
    /\ cb = [d \in DeviceSet |-> Idle]
    /\ crashed = FALSE
    /\ ev = Event("NewDevice", NoDevice, Nil, "Uninitialized", <<>>, Zero32)
    /\ frees = [d \in DeviceSet |-> 0]
    /\ events = [d \in DeviceSet |-> <<>>]
    /\ phase = [d \in DeviceSet |-> 0]

\* An application with one Device.
Init == Created({"d1"})

\* An application with two Devices, on a backend with playback hardware.
InitTwo ==
    /\ Created(DeviceSet)
    /\ hw = [k \in DeviceTypes |-> IF k = Playback THEN MaxHw ELSE 0]

\* The configuration the application with two Devices opens them with.
TwoDeviceConfigs == {c \in SupportedConfigs : c.format = "S16"}

(***************************************************************************)
(* The C library behind the binding.  Its source is not available; these   *)
(* operators state what sections 4.1, 4.2 and 4.3 of the specification     *)
(* require of it.                                                          *)
(***************************************************************************)

\* Result -> error: Success is the nil error, every other result an error
\* of that kind.
errorFromResult(v) == IF v = Success THEN Nil ELSE v

\* Context.Init: success, or NoBackendAvailable when no backend loads.
mal_context_init(backendLoads) ==
    IF backendLoads THEN Success ELSE "NoBackendAvailable"

\* Context.Uninit: releases the driver handles.
mal_context_uninit(ctxInit) == Success

\* Context.EnumerateDevices: the devices of both kinds, or a failed query.
mal_context_get_devices(ctxInit, have) ==
    IF ctxInit
    THEN [ret |-> Success, pcount |-> have[Playback], ccount |-> have[Capture]]
    ELSE [ret |-> "EnumerationFailed", pcount |-> 0, ccount |-> 0]

\* Device.Init: validates the configuration; on success the device is
\* Initialized with the negotiated parameters.
mal_device_init(kind, config) ==
    IF config \in SupportedConfigs \cup LargeBufferConfigs
    THEN [ret |-> Success,
          device |-> [state |-> "Initialized", type |-> kind,
                      format |-> config.format, channels |-> config.channels,
                      sampleRate |-> config.sampleRate,
                      bufferSizeInFrames |-> config.bufferSizeInFrames]]
    ELSE [ret |-> "InvalidConfig", device |-> ZeroDevice]

\* Variant: the resources are released whatever the state of the device.
mal_device_uninit_Unguarded(device) ==
    [device |-> ZeroDevice, released |-> TRUE,
     stopped |-> device.state = "Started"]

\* Device.Uninit: always safe; implicitly stops if started; releases the
\* backend resources of an initialized device; idempotent.
mal_device_uninit(device) ==
    IF device.state = "Uninitialized"
    THEN [device |-> device, released |-> FALSE, stopped |-> FALSE]
    ELSE [device |-> ZeroDevice, released |-> TRUE,
          stopped |-> device.state = "Started"]

\* Device.Start: Initialized -> Started; a Playback device pulls one buffer
\* from the send callback before playback begins.
mal_device_start(device) ==
    CASE device.state = "Uninitialized" ->
            [ret |-> "NotInitialized", device |-> device, prime |-> FALSE]
      [] device.state = "Started" ->
            [ret |-> "DeviceBusy", device |-> device, prime |-> FALSE]
      [] OTHER ->
            [ret |-> Success, device |-> [device EXCEPT !.state = "Started"],
             prime |-> device.type = Playback]

\* Device.Stop: Started -> Initialized; a caller error in any other state.
mal_device_stop(device) ==
    CASE device.state = "Uninitialized" ->
            [ret |-> "NotInitialized", device |-> device, stopped |-> FALSE]
      [] device.state = "Initialized" ->
            [ret |-> "DeviceBusy", device |-> device, stopped |-> FALSE]
      [] OTHER ->
            [ret |-> Success, device |-> [device EXCEPT !.state = "Initialized"],
             stopped |-> TRUE]

\* Device.IsStarted: snapshot of the state, as a mal_bool32.
mal_device_is_started(device) == IF device.state = "Started" THEN 1 ELSE 0

(***************************************************************************)
(* The exported callbacks.  hTest is the value the nil test reads from the *)
(* handler variable and hCall the value the call reads; they differ only   *)
(* when the variable is written between the two reads.                     *)
(***************************************************************************)
\* panic is Nil, or the run-time panic that ended the callback.
CallbackResult(panic, calls, r) == [panic |-> panic, calls |-> calls, r |-> r]

NoCallback == CallbackResult(Nil, <<>>, Zero32)

\* Slicing the 1 << 20 byte array beyond its length.
SliceBounds == "panic: slice bounds out of range"

\* Calling a nil func value.
NilCall == "panic: nil func call"

Panic(why) == CallbackResult(why, <<>>, Zero32)

\* Variant: the nil test is inverted.
goSendCallback_Inverted(hTest, hCall, pDevice, frameCount, k) ==
    IF hTest = Nil THEN Panic(NilCall) ELSE NoCallback

\* Variant: the frames requested are returned, not the frames produced.
goSendCallback_Requested(hTest, hCall, pDevice, frameCount, k) ==
    IF hTest # Nil
    THEN LET sampleCount == Mul32(frameCount, pDevice.channels)
             sizeInBytes == mal_get_bytes_per_sample(pDevice.format)
             psamples    == Mul32(sampleCount, sizeInBytes)
         IN  IF ExceedsArray(psamples) THEN Panic(SliceBounds)
             ELSE IF hCall = Nil THEN Panic(NilCall)
             ELSE CallbackResult(Nil,
                    <<HandlerCall("send", hCall, frameCount, psamples, k)>>,
                    frameCount)
    ELSE NoCallback

\* Variant: the handler is called twice.
goStopCallback_Twice(hTest, hCall) ==
    IF hTest # Nil
    THEN IF hCall = Nil
         THEN Panic(NilCall)
         ELSE CallbackResult(Nil,
                <<HandlerCall("stop", hCall, Zero32, Zero32, Zero32),
                  HandlerCall("stop", hCall, Zero32, Zero32, Zero32)>>, Zero32)
    ELSE NoCallback

\* Variant: goRecvCallback hands the captured samples to the send handler.
goRecvCallback_CallsSend(hTest, hCall, pDevice, frameCount) ==
    IF hTest # Nil
    THEN LET sampleCount == Mul32(frameCount, pDevice.channels)
             sizeInBytes == mal_get_bytes_per_sample(pDevice.format)
             psamples    == Mul32(sampleCount, sizeInBytes)
         IN  IF ExceedsArray(psamples) THEN Panic(SliceBounds)
             ELSE IF hCall = Nil THEN Panic(NilCall)
             ELSE CallbackResult(Nil,
                    <<HandlerCall("send", hCall, frameCount, psamples, Zero32)>>,
                    Zero32)
    ELSE NoCallback

\* Variant: the view of the samples has no 1 << 20 bound.
goRecvCallback_Unbounded(hTest, hCall, pDevice, frameCount) ==
    IF hTest # Nil
    THEN LET sampleCount == Mul32(frameCount, pDevice.channels)
             sizeInBytes == mal_get_bytes_per_sample(pDevice.format)
             psamples    == Mul32(sampleCount, sizeInBytes)
         IN  IF hCall = Nil THEN Panic(NilCall)
             ELSE CallbackResult(Nil,
                    <<HandlerCall("recv", hCall, frameCount, psamples, Zero32)>>,
                    Zero32)
    ELSE NoCallback

goRecvCallback(hTest, hCall, pDevice, frameCount) ==
    IF hTest # Nil
    THEN LET sampleCount == Mul32(frameCount, pDevice.channels)
             sizeInBytes == mal_get_bytes_per_sample(pDevice.format)
             psamples    == Mul32(sampleCount, sizeInBytes)
         IN  IF ExceedsArray(psamples) THEN Panic(SliceBounds)
             ELSE IF hCall = Nil THEN Panic(NilCall)
             ELSE CallbackResult(Nil,
                    <<HandlerCall("recv", hCall, frameCount, psamples, Zero32)>>,
                    Zero32)
    ELSE NoCallback

\* Variant: the buffer is sliced before the handler is tested.
goSendCallback_SliceFirst(hTest, hCall, pDevice, frameCount, k) ==
    LET sampleCount == Mul32(frameCount, pDevice.channels)
        sizeInBytes == mal_get_bytes_per_sample(pDevice.format)
        psamples    == Mul32(sampleCount, sizeInBytes)
    IN  IF ExceedsArray(psamples) THEN Panic(SliceBounds)
        ELSE IF hTest = Nil THEN NoCallback
        ELSE IF hCall = Nil THEN Panic(NilCall)
        ELSE CallbackResult(Nil,
               <<HandlerCall("send", hCall, frameCount, psamples, k)>>, k)

\* k is what the handler returns.
goSendCallback(hTest, hCall, pDevice, frameCount, k) ==
    IF hTest # Nil
    THEN LET sampleCount == Mul32(frameCount, pDevice.channels)
             sizeInBytes == mal_get_bytes_per_sample(pDevice.format)
             psamples    == Mul32(sampleCount, sizeInBytes)
         IN  IF ExceedsArray(psamples) THEN Panic(SliceBounds)
             ELSE IF hCall = Nil THEN Panic(NilCall)
             ELSE CallbackResult(Nil,
                    <<HandlerCall("send", hCall, frameCount, psamples, k)>>,
                    k)
    ELSE NoCallback

goStopCallback(hTest, hCall) ==
    IF hTest # Nil
    THEN IF hCall = Nil
         THEN Panic(NilCall)
         ELSE CallbackResult(Nil,
                <<HandlerCall("stop", hCall, Zero32, Zero32, Zero32)>>, Zero32)
    ELSE NoCallback

(***************************************************************************)
(* Bookkeeping of the steps                                                *)
(***************************************************************************)

\* The log of first occurrences: e is appended unless it is there already.
Note(log, e) ==
    IF \E i \in 1..Len(log) : log[i] = e THEN log ELSE Append(log, e)

Bit(b) == U32(0, IF b THEN 1 ELSE 0)

\* The process dies of a panic in operation op on device d.
Crash(op, d, why) ==
    /\ crashed' = TRUE
    /\ ev' = Event(op, d, why, dev[d].state, <<>>, Zero32)
    /\ UNCHANGED <<active, handlers, context, dev, cb, frees, events, phase>>

(***************************************************************************)
(* Application thread: the Device methods                                  *)
(***************************************************************************)

\* Device.ContextInit
ContextInit(backendLoads) ==
    /\ ~crashed
    /\ ~contextInitialized
    /\ LET ret == mal_context_init(backendLoads)
           v   == ret
       IN  /\ contextInitialized' = (v = Success)
           /\ ev' = Event("ContextInit", NoDevice, errorFromResult(v),
                          "Uninitialized", <<>>, Zero32)
    /\ UNCHANGED <<active, handlers, hw, dev, cb, crashed, frees, events, phase>>

\* Device.ContextUninit; the caller has uninitialized its devices first.
ContextUninit ==
    /\ ~crashed
    /\ contextInitialized
    /\ \A d \in active : dev[d].state = "Uninitialized"
    /\ LET ret == mal_context_uninit(contextInitialized)
           v   == ret
       IN  /\ contextInitialized' = FALSE
           /\ ev' = Event("ContextUninit", NoDevice, errorFromResult(v),
                          "Uninitialized", <<>>, Zero32)
    /\ UNCHANGED <<active, handlers, hw, dev, cb, crashed, frees, events, phase>>

\* Variant: an empty result is reported as a failed enumeration.
Devices_EmptyIsError(kind) ==
    /\ ~crashed
    /\ LET got == mal_context_get_devices(contextInitialized, hw)
           v   == got.ret
           res == IF kind = Playback THEN got.pcount
                  ELSE IF kind = Capture THEN got.ccount
                  ELSE 0
       IN  ev' = IF v = Success /\ res > 0
                 THEN Event("Devices", kind, Nil, "Uninitialized", <<>>, U32(0, res))
                 ELSE Event("Devices", kind, "EnumerationFailed", "Uninitialized",
                            <<>>, Zero32)
    /\ UNCHANGED <<active, handlers, context, dev, cb, crashed, frees, events, phase>>

\* Device.Devices; the value of the step is the length of the result.
Devices(kind) ==
    /\ ~crashed
    /\ LET got == mal_context_get_devices(contextInitialized, hw)
           v   == got.ret
           res == IF kind = Playback THEN got.pcount
                  ELSE IF kind = Capture THEN got.ccount
                  ELSE 0
       IN  ev' = IF v = Success
                 THEN Event("Devices", kind, Nil, "Uninitialized", <<>>, U32(0, res))
                 ELSE Event("Devices", kind, errorFromResult(v), "Uninitialized",
                            <<>>, Zero32)
    /\ UNCHANGED <<active, handlers, context, dev, cb, crashed, frees, events, phase>>

\* Device.Init, on a device that is not initialized, of a kind the backend
\* has a device for, with an initialized context.
DeviceInit(d, kind, pconfig) ==
    /\ ~crashed
    /\ contextInitialized
    /\ hw[kind] > 0
    /\ dev[d].state = "Uninitialized"
    /\ LET m == mal_device_init(kind, pconfig)
           v == m.ret
       IN  /\ dev' = [dev EXCEPT ![d] = m.device]
           /\ frees' = IF v = Success THEN [frees EXCEPT ![d] = 0] ELSE frees
           /\ phase' = [phase EXCEPT ![d] =
                          IF v = Success /\ pconfig \in SupportedConfigs
                          THEN 1 ELSE 0]
           /\ ev' = Event("Init", d, errorFromResult(v), dev[d].state, <<>>, Zero32)
    /\ UNCHANGED <<active, handlers, context, cb, crashed, events>>

\* Variant: Uninit calls mal_device_stop.
Uninit_CallsStop(d) ==
    /\ ~crashed
    /\ cb[d].pc = "idle"
    /\ frees[d] < MaxFrees
    /\ LET m == mal_device_stop(dev[d])
           c == IF m.stopped THEN goStopCallback(stopHandler, stopHandler)
                ELSE NoCallback
       IN  /\ dev' = [dev EXCEPT ![d] = m.device]
           /\ frees' = frees
           /\ events' = [events EXCEPT ![d] = <<>>]
           /\ phase' = [phase EXCEPT ![d] = IF @ = 3 THEN 4 ELSE 0]
           /\ ev' = Event("Uninit", d, Nil, dev[d].state, c.calls, Zero32)
    /\ UNCHANGED <<active, handlers, context, cb, crashed>>

\* Device.Uninit.  It waits for the backend thread; a stop callback runs
\* before it returns.
Uninit(d) ==
    /\ ~crashed
    /\ cb[d].pc = "idle"
    /\ frees[d] < MaxFrees
    /\ LET m == mal_device_uninit(dev[d])
           c == IF m.stopped THEN goStopCallback(stopHandler, stopHandler)
                ELSE NoCallback
       IN  /\ dev' = [dev EXCEPT ![d] = m.device]
           /\ frees' = [frees EXCEPT ![d] = IF m.released THEN @ + 1 ELSE @]
           /\ events' = [events EXCEPT ![d] = <<>>]
           /\ phase' = [phase EXCEPT ![d] = IF @ = 3 THEN 4 ELSE 0]
           /\ ev' = Event("Uninit", d, Nil, dev[d].state, c.calls, Zero32)
    /\ UNCHANGED <<active, handlers, context, cb, crashed>>

\* Device.SetRecvCallback
SetRecvCallback(d, proc) ==
    /\ ~crashed
    /\ recvHandler' = proc
    /\ ev' = Event("SetRecvCallback", d, Nil, dev[d].state, <<>>, Zero32)
    /\ registered' = [registered EXCEPT ![d].recv = proc]
    /\ UNCHANGED <<active, sendHandler, stopHandler, logHandler, context, dev, cb, crashed, frees,
                   events, phase>>

\* Device.SetSendCallback
SetSendCallback(d, proc) ==
    /\ ~crashed
    /\ sendHandler' = proc
    /\ ev' = Event("SetSendCallback", d, Nil, dev[d].state, <<>>, Zero32)
    /\ registered' = [registered EXCEPT ![d].send = proc]
    /\ UNCHANGED <<active, recvHandler, stopHandler, logHandler, context, dev, cb, crashed, frees,
                   events, phase>>

\* Device.SetStopCallback
SetStopCallback(d, proc) ==
    /\ ~crashed
    /\ stopHandler' = proc
    /\ ev' = Event("SetStopCallback", d, Nil, dev[d].state, <<>>, Zero32)
    /\ registered' = [registered EXCEPT ![d].stop = proc]
    /\ UNCHANGED <<active, recvHandler, sendHandler, logHandler, context, dev, cb, crashed, frees,
                   events, phase>>

\* Device.SetLogCallback
SetLogCallback(d, proc) ==
    /\ ~crashed
    /\ logHandler' = proc
    /\ ev' = Event("SetLogCallback", d, Nil, dev[d].state, <<>>, Zero32)
    /\ registered' = registered
    /\ UNCHANGED <<active, recvHandler, sendHandler, stopHandler, context, dev, cb,
                   crashed, frees, events, phase>>

(***************************************************************************)
(* The configuration helpers.  Each returns a DeviceConfig (ContextConfig) *)
(* value built by the C library from its format, channels and sample rate  *)
(* arguments; the value is the caller's and is no part of the state.  What *)
(* the helpers write is the handler variables.                             *)
(***************************************************************************)

\* Device.ConfigInit
ConfigInit(d, onrecvcallback, onsendcallback) ==
    /\ ~crashed
    /\ recvHandler' = onrecvcallback
    /\ sendHandler' = onsendcallback
    /\ ev' = Event("ConfigInit", d, Nil, dev[d].state, <<>>, Zero32)
    /\ registered' = [registered EXCEPT ![d].recv = onrecvcallback,
                                       ![d].send = onsendcallback]
    /\ UNCHANGED <<active, stopHandler, logHandler, context, dev, cb, crashed,
                   frees, events, phase>>

\* Device.ConfigInitCapture
ConfigInitCapture(d, onrecvcallback) ==
    /\ ~crashed
    /\ recvHandler' = onrecvcallback
    /\ ev' = Event("ConfigInitCapture", d, Nil, dev[d].state, <<>>, Zero32)
    /\ registered' = [registered EXCEPT ![d].recv = onrecvcallback]
    /\ UNCHANGED <<active, sendHandler, stopHandler, logHandler, context, dev, cb,
                   crashed, frees, events, phase>>

\* Variant: the playback helper clears the recv handler as ConfigInit would
\* with a nil argument.
ConfigInitPlayback_ClearsRecv(d, onsendcallback) ==
    /\ ~crashed
    /\ recvHandler' = Nil
    /\ sendHandler' = onsendcallback
    /\ ev' = Event("ConfigInitPlayback", d, Nil, dev[d].state, <<>>, Zero32)
    /\ registered' = [registered EXCEPT ![d].recv = Nil,
                                       ![d].send = onsendcallback]
    /\ UNCHANGED <<active, stopHandler, logHandler, context, dev, cb, crashed,
                   frees, events, phase>>

\* Device.ConfigInitPlayback
ConfigInitPlayback(d, onsendcallback) ==
    /\ ~crashed
    /\ sendHandler' = onsendcallback
    /\ ev' = Event("ConfigInitPlayback", d, Nil, dev[d].state, <<>>, Zero32)
    /\ registered' = [registered EXCEPT ![d].send = onsendcallback]
    /\ UNCHANGED <<active, recvHandler, stopHandler, logHandler, context, dev, cb,
                   crashed, frees, events, phase>>

\* Device.ConfigInitDefaultCapture
ConfigInitDefaultCapture(d, onrecvcallback) ==
    /\ ~crashed
    /\ recvHandler' = onrecvcallback
    /\ ev' = Event("ConfigInitDefaultCapture", d, Nil, dev[d].state, <<>>, Zero32)
    /\ registered' = [registered EXCEPT ![d].recv = onrecvcallback]
    /\ UNCHANGED <<active, sendHandler, stopHandler, logHandler, context, dev, cb,
                   crashed, frees, events, phase>>

\* Device.ConfigInitDefaultPlayback
ConfigInitDefaultPlayback(d, onsendcallback) ==
    /\ ~crashed
    /\ sendHandler' = onsendcallback
    /\ ev' = Event("ConfigInitDefaultPlayback", d, Nil, dev[d].state, <<>>, Zero32)
    /\ registered' = [registered EXCEPT ![d].send = onsendcallback]
    /\ UNCHANGED <<active, recvHandler, stopHandler, logHandler, context, dev, cb,
                   crashed, frees, events, phase>>

\* Device.ContextConfigInit
ContextConfigInit(d, onlogcallback) ==
    /\ ~crashed
    /\ logHandler' = onlogcallback
    /\ ev' = Event("ContextConfigInit", d, Nil, dev[d].state, <<>>, Zero32)
    /\ registered' = registered
    /\ UNCHANGED <<active, recvHandler, sendHandler, stopHandler, context, dev, cb,
                   crashed, frees, events, phase>>

\* Variant: Start drops the result of mal_device_start and returns nil.
Start_DropsResult(d, k) ==
    /\ ~crashed
    /\ LET m == mal_device_start(dev[d])
           v == m.ret
           c == IF m.prime
                THEN goSendCallback(sendHandler, sendHandler, m.device,
                                    m.device.bufferSizeInFrames, k)
                ELSE NoCallback
       IN  IF c.panic # Nil
           THEN Crash("Start", d, c.panic)
           ELSE /\ dev' = [dev EXCEPT ![d] = m.device]
                /\ events' = IF v = Success
                             THEN [events EXCEPT ![d] =
                                     IF c.calls # <<>> THEN <<"send">> ELSE <<>>]
                             ELSE events
                /\ phase' = [phase EXCEPT ![d] =
                               IF v = Success /\ @ = 1 THEN 2 ELSE 0]
                /\ ev' = Event("Start", d, Nil, dev[d].state, c.calls, c.r)
                /\ UNCHANGED <<active, handlers, context, cb, crashed, frees>>

\* Device.Start.  The initial buffer of a Playback device is pulled through
\* goSendCallback before Start returns; k is what the handler returns, and
\* the value of the step is what goSendCallback returns to the backend.
Start(d, k) ==
    /\ ~crashed
    /\ LET m == mal_device_start(dev[d])
           v == m.ret
           c == IF m.prime
                THEN goSendCallback(sendHandler, sendHandler, m.device,
                                    m.device.bufferSizeInFrames, k)
                ELSE NoCallback
       IN  IF c.panic # Nil
           THEN Crash("Start", d, c.panic)
           ELSE /\ dev' = [dev EXCEPT ![d] = m.device]
                /\ events' = IF v = Success
                             THEN [events EXCEPT ![d] =
                                     IF c.calls # <<>> THEN <<"send">> ELSE <<>>]
                             ELSE events
                /\ phase' = [phase EXCEPT ![d] =
                               IF v = Success /\ @ = 1 THEN 2 ELSE 0]
                /\ ev' = Event("Start", d, errorFromResult(v), dev[d].state,
                               c.calls, c.r)
                /\ UNCHANGED <<active, handlers, context, cb, crashed, frees>>

\* Variant: Stop calls mal_device_start.
Stop_CallsStart(d) ==
    /\ ~crashed
    /\ cb[d].pc = "idle"
    /\ LET m == mal_device_start(dev[d])
           v == m.ret
       IN  /\ dev' = [dev EXCEPT ![d] = m.device]
           /\ events' = events
           /\ phase' = [phase EXCEPT ![d] = 0]
           /\ ev' = Event("Stop", d, errorFromResult(v), dev[d].state, <<>>,
                          Zero32)
    /\ UNCHANGED <<active, handlers, context, cb, crashed, frees>>

\* Variant: Stop does not wait for the backend thread to leave its callback.
Stop_NoWait(d) ==
    /\ ~crashed
    /\ LET m == mal_device_stop(dev[d])
           v == m.ret
           c == IF m.stopped THEN goStopCallback(stopHandler, stopHandler)
                ELSE NoCallback
       IN  /\ dev' = [dev EXCEPT ![d] = m.device]
           /\ events' = IF m.stopped THEN [events EXCEPT ![d] = <<>>] ELSE events
           /\ phase' = [phase EXCEPT ![d] = IF v = Success /\ @ = 2 THEN 3 ELSE 0]
           /\ ev' = Event("Stop", d, errorFromResult(v), dev[d].state, c.calls,
                          Zero32)
    /\ UNCHANGED <<active, handlers, context, cb, crashed, frees>>

\* Variant: Stop drops the result of mal_device_stop and returns nil.
Stop_DropsResult(d) ==
    /\ ~crashed
    /\ cb[d].pc = "idle"
    /\ LET m == mal_device_stop(dev[d])
           v == m.ret
           c == IF m.stopped THEN goStopCallback(stopHandler, stopHandler)
                ELSE NoCallback
       IN  /\ dev' = [dev EXCEPT ![d] = m.device]
           /\ events' = IF m.stopped THEN [events EXCEPT ![d] = <<>>] ELSE events
           /\ phase' = [phase EXCEPT ![d] = IF v = Success /\ @ = 2 THEN 3 ELSE 0]
           /\ ev' = Event("Stop", d, Nil, dev[d].state, c.calls, Zero32)
    /\ UNCHANGED <<active, handlers, context, cb, crashed, frees>>

\* Device.Stop.  It waits for the backend thread; the stop callback runs
\* before it returns.
Stop(d) ==
    /\ ~crashed
    /\ cb[d].pc = "idle"
    /\ LET m == mal_device_stop(dev[d])
           v == m.ret
           c == IF m.stopped THEN goStopCallback(stopHandler, stopHandler)
                ELSE NoCallback
       IN  /\ dev' = [dev EXCEPT ![d] = m.device]
           /\ events' = IF m.stopped THEN [events EXCEPT ![d] = <<>>] ELSE events
           /\ phase' = [phase EXCEPT ![d] = IF v = Success /\ @ = 2 THEN 3 ELSE 0]
           /\ ev' = Event("Stop", d, errorFromResult(v), dev[d].state, c.calls,
                          Zero32)
    /\ UNCHANGED <<active, handlers, context, cb, crashed, frees>>

\* Variant: the comparison of IsStarted is inverted.
IsStarted_Inverted(d) ==
    /\ ~crashed
    /\ LET ret == mal_device_is_started(dev[d])
           v   == ret
           r   == (v # 1)
       IN  ev' = Event("IsStarted", d, Nil, dev[d].state, <<>>, Bit(r))
    /\ UNCHANGED <<active, handlers, context, dev, cb, crashed, frees, events, phase>>

\* Device.IsStarted; the value of the step is the boolean returned.
IsStarted(d) ==
    /\ ~crashed
    /\ LET ret == mal_device_is_started(dev[d])
           v   == ret
           r   == (v = 1)
       IN  ev' = Event("IsStarted", d, Nil, dev[d].state, <<>>, Bit(r))
    /\ UNCHANGED <<active, handlers, context, dev, cb, crashed, frees, events, phase>>

(***************************************************************************)
(* Backend thread of a started device.  A callback that finds no handler   *)
(* returns in the step that enters it; otherwise the handler is called in  *)
(* a second step, and the application thread may run in between.           *)
(***************************************************************************)

\* The backend needs samples: goSendCallback is entered (the nil test).
SendPeriod(d) ==
    /\ ~crashed
    /\ dev[d].state = "Started"
    /\ dev[d].type = Playback
    /\ cb[d].pc = "idle"
    /\ IF sendHandler = Nil
       THEN LET c == goSendCallback(Nil, Nil, dev[d],
                                    dev[d].bufferSizeInFrames, Zero32)
            IN  /\ ev' = Event("goSendCallback", d, Nil, dev[d].state, c.calls, c.r)
                /\ events' = [events EXCEPT ![d] = Note(@, "present")]
                /\ cb' = cb
       ELSE /\ cb' = [cb EXCEPT ![d] = [pc |-> "send", h |-> sendHandler]]
            /\ ev' = Event("enter", d, Nil, dev[d].state, <<>>, Zero32)
            /\ events' = events
    /\ UNCHANGED <<active, handlers, context, dev, crashed, frees, phase>>

\* goSendCallback slices the buffer and calls the handler, which returns k;
\* the backend then presents the samples.
SendPeriodCall(d, hCall, k) ==
    /\ ~crashed
    /\ cb[d].pc = "send"
    /\ hCall \in {cb[d].h, sendHandler}
    /\ LET c == goSendCallback(cb[d].h, hCall, dev[d],
                               dev[d].bufferSizeInFrames, k)
       IN  IF c.panic # Nil
           THEN Crash("goSendCallback", d, c.panic)
           ELSE /\ ev' = Event("goSendCallback", d, Nil, dev[d].state, c.calls, c.r)
                /\ events' = [events EXCEPT ![d] = Note(Note(@, "send"), "present")]
                /\ cb' = [cb EXCEPT ![d] = Idle]
                /\ UNCHANGED <<active, handlers, context, dev, crashed, frees, phase>>

\* The backend has captured a buffer: goRecvCallback is entered.
RecvPeriod(d) ==
    /\ ~crashed
    /\ dev[d].state = "Started"
    /\ dev[d].type = Capture
    /\ cb[d].pc = "idle"
    /\ IF recvHandler = Nil
       THEN LET c == goRecvCallback(Nil, Nil, dev[d], dev[d].bufferSizeInFrames)
            IN  /\ ev' = Event("goRecvCallback", d, Nil, dev[d].state, c.calls, c.r)
                /\ cb' = cb
       ELSE /\ cb' = [cb EXCEPT ![d] = [pc |-> "recv", h |-> recvHandler]]
            /\ ev' = Event("enter", d, Nil, dev[d].state, <<>>, Zero32)
    /\ UNCHANGED <<active, handlers, context, dev, crashed, frees, events, phase>>

\* goRecvCallback slices the buffer and calls the handler.
RecvPeriodCall(d, hCall) ==
    /\ ~crashed
    /\ cb[d].pc = "recv"
    /\ hCall \in {cb[d].h, recvHandler}
    /\ LET c == goRecvCallback(cb[d].h, hCall, dev[d], dev[d].bufferSizeInFrames)
       IN  IF c.panic # Nil
           THEN Crash("goRecvCallback", d, c.panic)
           ELSE /\ ev' = Event("goRecvCallback", d, Nil, dev[d].state, c.calls, c.r)
                /\ cb' = [cb EXCEPT ![d] = Idle]
                /\ UNCHANGED <<active, handlers, context, dev, crashed, frees, events,
                               phase>>

\* The device leaves Started and is Initialized again.
Halted(device) == [device EXCEPT !.state = "Initialized"]

\* The backend detects an error or a disconnection of a started device:
\* goStopCallback is entered.
DeviceLost(d) ==
    /\ ~crashed
    /\ dev[d].state = "Started"
    /\ cb[d].pc = "idle"
    /\ IF stopHandler = Nil
       THEN LET c == goStopCallback(Nil, Nil)
            IN  /\ ev' = Event("goStopCallback", d, Nil, dev[d].state, c.calls, c.r)
                /\ dev' = [dev EXCEPT ![d] = Halted(@)]
                /\ events' = [events EXCEPT ![d] = <<>>]
                /\ phase' = [phase EXCEPT ![d] = 0]
                /\ cb' = cb
       ELSE /\ cb' = [cb EXCEPT ![d] = [pc |-> "stop", h |-> stopHandler]]
            /\ ev' = Event("enter", d, Nil, dev[d].state, <<>>, Zero32)
            /\ UNCHANGED <<dev, events, phase>>
    /\ UNCHANGED <<active, handlers, context, crashed, frees>>

\* goStopCallback calls the handler; the stream is then out of Started.
DeviceLostCall(d, hCall) ==
    /\ ~crashed
    /\ cb[d].pc = "stop"
    /\ hCall \in {cb[d].h, stopHandler}
    /\ LET c == goStopCallback(cb[d].h, hCall)
       IN  IF c.panic # Nil
           THEN Crash("goStopCallback", d, c.panic)
           ELSE /\ ev' = Event("goStopCallback", d, Nil, dev[d].state, c.calls, c.r)
                /\ dev' = [dev EXCEPT ![d] = Halted(@)]
                /\ events' = [events EXCEPT ![d] = <<>>]
                /\ phase' = [phase EXCEPT ![d] = 0]
                /\ cb' = [cb EXCEPT ![d] = Idle]
                /\ UNCHANGED <<active, handlers, context, crashed, frees>>

(***************************************************************************)
(* Specification                                                           *)
(***************************************************************************)
Next ==
    \/ \E b \in BOOLEAN : ContextInit(b)
    \/ ContextUninit
    \/ \E kind \in DeviceTypes : Devices(kind)
    \/ \E d \in active, kind \in DeviceTypes, c \in DeviceConfigs :
          DeviceInit(d, kind, c)
    \/ \E d \in active : Uninit(d)
    \/ \E d \in active, proc \in RecvProcs \cup {Nil} : SetRecvCallback(d, proc)
    \/ \E d \in active, proc \in SendProcs \cup {Nil} : SetSendCallback(d, proc)
    \/ \E d \in active, proc \in StopProcs \cup {Nil} : SetStopCallback(d, proc)
    \/ \E d \in active, proc \in LogProcs \cup {Nil} : SetLogCallback(d, proc)
    \/ \E d \in active, r \in RecvProcs \cup {Nil}, s \in SendProcs \cup {Nil} :
          ConfigInit(d, r, s)
    \/ \E d \in active, proc \in RecvProcs \cup {Nil} : ConfigInitCapture(d, proc)
    \/ \E d \in active, proc \in SendProcs \cup {Nil} : ConfigInitPlayback(d, proc)
    \/ \E d \in active, proc \in RecvProcs \cup {Nil} :
          ConfigInitDefaultCapture(d, proc)
    \/ \E d \in active, proc \in SendProcs \cup {Nil} :
          ConfigInitDefaultPlayback(d, proc)
    \/ \E d \in active, proc \in LogProcs \cup {Nil} : ContextConfigInit(d, proc)
    \/ \E d \in active :
          \E k \in SendReturns(dev[d].bufferSizeInFrames) : Start(d, k)
    \/ \E d \in active : Stop(d)
    \/ \E d \in active : IsStarted(d)
    \/ \E d \in active : SendPeriod(d)
    \/ \E d \in active, h \in SendProcs \cup {Nil} :
          \E k \in SendReturns(dev[d].bufferSizeInFrames) : SendPeriodCall(d, h, k)
    \/ \E d \in active : RecvPeriod(d)
    \/ \E d \in active, h \in RecvProcs \cup {Nil} : RecvPeriodCall(d, h)
    \/ \E d \in active : DeviceLost(d)
    \/ \E d \in active, h \in StopProcs \cup {Nil} : DeviceLostCall(d, h)

Spec == Init /\ [][Next]_vars

\* The application with two Devices: it opens both for playback, registers
\* send handlers through either, and starts and stops them.
NextTwo ==
    \/ ContextInit(TRUE)
    \/ \E d \in active, c \in TwoDeviceConfigs : DeviceInit(d, Playback, c)
    \/ \E d \in active, proc \in SendProcs \cup {Nil} : SetSendCallback(d, proc)
    \/ \E d \in active : Start(d, dev[d].bufferSizeInFrames)
    \/ \E d \in active : Stop(d)
    \/ \E d \in active : SendPeriod(d)
    \/ \E d \in active :
          \E hCall \in {cb[d].h, sendHandler} :
              SendPeriodCall(d, hCall, dev[d].bufferSizeInFrames)

SpecTwo == InitTwo /\ [][NextTwo]_vars

(***************************************************************************)
(* Properties                                                              *)
(***************************************************************************)

\* The negotiated configuration of a device.
ConfigOf(device) ==
    [format |-> device.format, channels |-> device.channels,
     sampleRate |-> device.sampleRate,
     bufferSizeInFrames |-> device.bufferSizeInFrames]

\* The calls of one kind among the handler calls of the last step.
CallsOf(e, kind) == { i \in 1..Len(e.calls) : e.calls[i].kind = kind }

SetterOps == {"SetRecvCallback", "SetSendCallback", "SetStopCallback"}

\* C1: Start on a device that is not initialized (never initialized, or
\* uninitialized again) returns the NotInitialized error; the device stays
\* Uninitialized, so IsStarted is false, no handler is called and no
\* callback is in progress.
C1_StartBeforeInit ==
    (ev.op = "Start" /\ ev.pre = "Uninitialized") =>
        /\ ev.err = "NotInitialized"
        /\ dev[ev.d].state = "Uninitialized"
        /\ mal_device_is_started(dev[ev.d]) = 0
        /\ ev.calls = <<>>
        /\ cb[ev.d].pc = "idle"

\* Start has been called on a device that was initialized and uninitialized.
C1_Witness ==
    /\ ev.op = "Start"
    /\ ev.pre = "Uninitialized"
    /\ frees[ev.d] = 1

\* C2: Start on a device that is Started returns the DeviceBusy error and
\* changes nothing: the device is still Started with the same
\* configuration, the handlers are the same and no handler is called.
C2_StartTwice ==
    [][ (ev'.op = "Start" /\ dev[ev'.d].state = "Started") =>
            /\ ev'.err = "DeviceBusy"
            /\ dev' = dev
            /\ mal_device_is_started(dev'[ev'.d]) = 1
            /\ handlers' = handlers
            /\ cb' = cb
            /\ ev'.calls = <<>> ]_vars

\* Start has been called on a started device with handlers registered.
C2_Witness ==
    /\ ev.op = "Start"
    /\ ev.pre = "Started"
    /\ sendHandler # Nil
    /\ stopHandler # Nil

\* C3: Uninit never fails; on a device that is already Uninitialized it
\* changes nothing, and the backend resources of a device are released
\* once per Init: one release when the device was initialized, none
\* otherwise, never two.
C3_UninitIdempotent ==
    /\ [](\A d \in DeviceSet : frees[d] <= 1)
    /\ [][ ev'.op = "Uninit" =>
            /\ ev'.err = Nil
            /\ ~crashed'
            /\ IF dev[ev'.d].state = "Uninitialized"
               THEN UNCHANGED <<dev, handlers, context, cb, frees>>
               ELSE frees'[ev'.d] = 1 ]_vars

\* Uninit has been called on a device whose resources were released before.
C3_Witness ==
    /\ ev.op = "Uninit"
    /\ ev.pre = "Uninitialized"
    /\ frees[ev.d] = 1

\* C4: after Uninit the device is Uninitialized whatever its state was, a
\* started device included; IsStarted is false, no callback is in progress,
\* and Send and Recv callbacks reach only a device that is Started.
C4_UninitFromAnyState ==
    /\ ev.op = "Uninit" =>
          /\ dev[ev.d].state = "Uninitialized"
          /\ mal_device_is_started(dev[ev.d]) = 0
          /\ cb[ev.d].pc = "idle"
    /\ ev.op \in {"goSendCallback", "goRecvCallback"} => ev.pre = "Started"
    /\ \A d \in DeviceSet : cb[d].pc # "idle" => dev[d].state = "Started"

\* Uninit has been called on a started device.
C4_Witness ==
    /\ ev.op = "Uninit"
    /\ ev.pre = "Started"
    /\ dev[ev.d].state = "Uninitialized"

\* C5: when Start of a Playback device with a registered Send handler
\* returns, the handler has been called once, by Start, and no sample has
\* been presented yet.
C5_SendBeforePlayback ==
    (/\ ev.op = "Start"
     /\ ev.err = Nil
     /\ dev[ev.d].type = Playback
     /\ sendHandler # Nil) =>
        /\ Len(ev.calls) = 1
        /\ ev.calls[1].kind = "send"
        /\ ev.calls[1].h = sendHandler
        /\ events[ev.d] = <<"send">>

\* Start of a Playback device with a Send handler has returned.
C5_Witness ==
    /\ ev.op = "Start"
    /\ ev.err = Nil
    /\ dev[ev.d].type = Playback
    /\ sendHandler # Nil
    /\ dev[ev.d].state = "Started"

\* C6: a callback does not fail for the size of its buffer, and the buffer
\* a Send or Recv handler is called with has exactly
\* frameCount * channels * bytesPerSample bytes, the handler receiving the
\* frame count of the backend.
C6_BufferExtent ==
    /\ ev.err # SliceBounds
    /\ \A i \in CallsOf(ev, "send") \cup CallsOf(ev, "recv") :
          LET c == ev.calls[i]
              F == dev[ev.d].bufferSizeInFrames
              C == dev[ev.d].channels
              B == mal_get_bytes_per_sample(dev[ev.d].format)
          IN  /\ c.frameCount = F
              /\ c.len = MulExact(MulExact(F, C), B)

\* C7: whenever the Send handler has been called, goSendCallback returns to
\* the backend what the handler returned, a count below the request and
\* zero included, and the process has not failed.
C7_FramesForwarded ==
    \A i \in CallsOf(ev, "send") :
        /\ ev.val = ev.calls[i].ret
        /\ ~crashed

\* A Send handler has returned no frame for a request of some.
C7_Witness ==
    /\ ev.op = "goSendCallback"
    /\ Len(ev.calls) = 1
    /\ ev.calls[1].ret = Zero32
    /\ ev.calls[1].frameCount # Zero32
    /\ ev.val = Zero32

\* C8: a step in which a device leaves Started calls the Stop handler once
\* when one is registered, and at most once in any case; a step in which no
\* device leaves Started does not call it.
C8_StopOncePerTransition ==
    [][ LET n == Cardinality(CallsOf(ev', "stop"))
        IN  IF \E d \in DeviceSet :
                  dev[d].state = "Started" /\ dev'[d].state # "Started"
            THEN n <= 1 /\ (stopHandler # Nil => n = 1)
            ELSE n = 0 ]_vars

\* Uninit of a started device has called the Stop handler.
C8_Witness ==
    /\ ev.op = "Uninit"
    /\ ev.pre = "Started"
    /\ Len(ev.calls) = 1
    /\ ev.calls[1].kind = "stop"

\* C9: SetRecvCallback, SetSendCallback and SetStopCallback on a device that
\* is Started are rejected with DeviceBusy and leave the handlers as they
\* are.
C9_SettersRejectedWhileStarted ==
    [][ (ev'.op \in SetterOps /\ dev[ev'.d].state = "Started") =>
            /\ ev'.err = "DeviceBusy"
            /\ handlers' = handlers ]_vars

C11_EmptyEnumeration ==
    ev.op = "Devices" =>
        LET failed == mal_context_get_devices(contextInitialized, hw).ret # Success
        IN  /\ (ev.err # Nil) <=> failed
            /\ ~failed /\ hw[ev.d] = 0 => ev.err = Nil /\ ev.val = Zero32
            /\ ~failed => ev.val = U32(0, hw[ev.d])

C11_Witness ==
    /\ ev.op = "Devices"
    /\ contextInitialized
    /\ hw[ev.d] = 0
    /\ \E k \in DeviceTypes : hw[k] > 0
    /\ ev.err = Nil
    /\ ev.val = Zero32

\* C12: a device is of one type, and only the handler of that type is
\* invoked for it: the recv handler only by goRecvCallback of a Capture
\* device, the send handler only by goSendCallback of a Playback device,
\* whichever handlers are registered.
C12_MatchingHandler ==
    \A i \in 1..Len(ev.calls) :
        /\ ev.calls[i].kind = "recv" =>
               dev[ev.d].type = Capture /\ ev.op = "goRecvCallback"
        /\ ev.calls[i].kind = "send" =>
               dev[ev.d].type = Playback /\ ev.op \in {"goSendCallback", "Start"}

C12_Witness ==
    /\ ev.op = "goRecvCallback"
    /\ Len(ev.calls) = 1
    /\ ev.calls[1].kind = "recv"
    /\ dev[ev.d].type = Capture
    /\ recvHandler # Nil
    /\ sendHandler # Nil

\* The handler of a kind registered through device d.
RegisteredOn(d, kind) ==
    IF kind = "recv" THEN registered[d].recv
    ELSE IF kind = "send" THEN registered[d].send
    ELSE registered[d].stop

\* C13: a Device has handler slots of its own: the handler called for a
\* Device is the one registered on that Device, whatever has been registered
\* on another Device.  Stated for the calls made while the application
\* thread is inside Start, Stop or Uninit of the Device, where no
\* registration can fall between the test of the handler and its call.
C13_OwnHandlerSlots ==
    ev.op \in {"Start", "Stop", "Uninit"} =>
        \A i \in 1..Len(ev.calls) :
            ev.calls[i].h = RegisteredOn(ev.d, ev.calls[i].kind)

\* C14: Stop of a device that is not Started (never started, stopped
\* already, or not initialized) returns an error, changes neither the
\* device nor the handlers, and calls no handler.
C14_StopNotStarted ==
    [][ (ev'.op = "Stop" /\ dev[ev'.d].state # "Started") =>
            /\ ev'.err # Nil
            /\ ev'.pre = dev[ev'.d].state
            /\ dev' = dev
            /\ cb' = cb
            /\ handlers' = handlers
            /\ ev'.calls = <<>> ]_vars

C14_Witness ==
    /\ ev.op = "Stop"
    /\ ev.pre = "Initialized"
    /\ ev.err = "DeviceBusy"
    /\ dev[ev.d].state = "Initialized"
    /\ stopHandler # Nil
    /\ ev.calls = <<>>

\* The callbacks of the router.
CallbackOps == {"goRecvCallback", "goSendCallback", "goStopCallback"}

\* C15: the callbacks of one device are sequential: a callback is entered
\* only when none is in progress for the device, and a step that runs a
\* callback or calls a handler for the device either finds none in progress
\* or completes the one that is, with at most one handler call (a callback
\* that panics ends the process).  Calls of the application thread fall
\* between the entry and the completion.
C15_CallbacksSequential ==
    [][ \A d \in active :
          /\ (cb'[d] # cb[d] /\ cb'[d].pc # "idle") => cb[d].pc = "idle"
          /\ (ev'.d = d /\ ~crashed'
                /\ (ev'.calls # <<>> \/ ev'.op \in CallbackOps)) =>
                 /\ Len(ev'.calls) <= 1
                 /\ \/ cb[d].pc = "idle" /\ cb'[d].pc = "idle"
                    \/ /\ cb[d].pc # "idle"
                       /\ cb'[d].pc = "idle"
                       /\ \A i \in 1..Len(ev'.calls) : ev'.calls[i].kind = cb[d].pc
      ]_vars

C15_Witness ==
    /\ ev.op = "Start"
    /\ ev.err = "DeviceBusy"
    /\ cb[ev.d].pc = "send"
    /\ cb[ev.d].h # Nil

\* C16: IsStarted returns true exactly when the device is Started, false
\* in every other state, and changes nothing: neither the device, a
\* callback in progress, the handlers nor the context.
C16_IsStartedReflectsState ==
    [][ ev'.op = "IsStarted" =>
            /\ ev'.val = Bit(dev[ev'.d].state = "Started")
            /\ ev'.err = Nil
            /\ ev'.calls = <<>>
            /\ UNCHANGED <<active, handlers, context, dev, cb, crashed, frees,
                           events, phase>> ]_vars

C16_Witness ==
    /\ ev.op = "IsStarted"
    /\ ev.val = Bit(TRUE)
    /\ dev[ev.d].state = "Started"
    /\ cb[ev.d].pc # "idle"

\* C17: a callback raised while the handler of its kind is nil does
\* nothing: goSendCallback returns 0 frames and calls nothing,
\* goRecvCallback and goStopCallback return without a call, and none of
\* them fails, whatever the size of the device's buffer.  The callbacks
\* are those of the backend thread and those run inside Start, Stop and
\* Uninit.
C17_NilHandlerNoOp ==
    [][ \A d \in active :
          (ev'.d = d /\ cb[d].pc = "idle") =>
              /\ ( /\ sendHandler = Nil
                   /\ \/ ev'.op = "goSendCallback"
                      \/ /\ ev'.op = "Start"
                         /\ dev[d].state = "Initialized"
                         /\ dev[d].type = Playback ) =>
                     /\ ~crashed'
                     /\ ev'.err = Nil
                     /\ ev'.calls = <<>>
                     /\ ev'.val = Zero32
              /\ (recvHandler = Nil /\ ev'.op = "goRecvCallback") =>
                     /\ ~crashed'
                     /\ ev'.err = Nil
                     /\ ev'.calls = <<>>
              /\ ( /\ stopHandler = Nil
                   /\ ev'.op \in {"goStopCallback", "Stop", "Uninit"} ) =>
                     /\ ~crashed'
                     /\ ev'.calls = <<>> ]_vars

C17_Witness ==
    /\ ev.op = "goSendCallback"
    /\ sendHandler = Nil
    /\ cb[ev.d].pc = "idle"
    /\ dev[ev.d].state = "Started"
    /\ ExceedsArray(Mul32(Mul32(dev[ev.d].bufferSizeInFrames,
                                dev[ev.d].channels),
                          mal_get_bytes_per_sample(dev[ev.d].format)))
    /\ ev.calls = <<>>
    /\ ev.val = Zero32
    /\ ~crashed

\* What no configuration helper touches: the devices and their state, the
\* callbacks in progress, the context.
LifecycleState == <<active, dev, cb, context, crashed, frees, events, phase>>

\* C18: a configuration helper writes only the handlers it is given:
\* ConfigInit sets the recv and the send handler to its arguments, nil
\* included, and leaves the stop and log handlers; ConfigInitPlayback and
\* ConfigInitDefaultPlayback set the send handler only; ConfigInitCapture
\* and ConfigInitDefaultCapture set the recv handler only; none changes the
\* state of a device.
C18_ConfigHelpersFrame ==
    [][ /\ ev'.op = "ConfigInit" =>
               /\ recvHandler' = registered'[ev'.d].recv
               /\ sendHandler' = registered'[ev'.d].send
               /\ UNCHANGED <<stopHandler, logHandler, LifecycleState>>
        /\ ev'.op \in {"ConfigInitPlayback", "ConfigInitDefaultPlayback"} =>
               /\ sendHandler' = registered'[ev'.d].send
               /\ UNCHANGED <<recvHandler, stopHandler, logHandler, LifecycleState>>
        /\ ev'.op \in {"ConfigInitCapture", "ConfigInitDefaultCapture"} =>
               /\ recvHandler' = registered'[ev'.d].recv
               /\ UNCHANGED <<sendHandler, stopHandler, logHandler, LifecycleState>>
      ]_vars

C18_Witness ==
    /\ ev.op = "ConfigInitPlayback"
    /\ sendHandler = Nil
    /\ recvHandler # Nil
    /\ stopHandler # Nil
    /\ logHandler # Nil
    /\ dev[ev.d].state = "Started"

\* C19: however a callback of the backend thread interleaves with a
\* registration on the application thread, the router does not call a nil
\* handler: the handler it calls is the non-nil one it tested.
C19_NeverCallsNil ==
    [][ \A d \in active :
          (ev'.d = d /\ ev'.op \in CallbackOps /\ cb[d].pc # "idle") =>
              /\ ev'.err # NilCall
              /\ \A i \in 1..Len(ev'.calls) : ev'.calls[i].h = cb[d].h ]_vars

\* frameCount * channels * bytesPerSample of a device's buffer, modulo 2^32.
ComputedExtent(device) ==
    Wrap32(MulExact(MulExact(device.bufferSizeInFrames, device.channels),
                    mal_get_bytes_per_sample(device.format)))

\* x <= 2^20
WithinView(x) == x[1] < 16 \/ x = U32(16, 0)

\* C20: the extent of the buffer is frameCount * channels * bytesPerSample
\* in 32-bit unsigned arithmetic, and the view of the samples ends at 2^20
\* bytes: a Send or Recv handler is called with exactly the computed extent
\* when that is at most 2^20, and is not called when it is more; a callback
\* that fails on the size of its buffer has a computed extent above 2^20
\* and fails before the handler is called.
C20_ExtentWithinView ==
    /\ \A i \in CallsOf(ev, "send") \cup CallsOf(ev, "recv") :
          /\ ev.calls[i].len = ComputedExtent(dev[ev.d])
          /\ WithinView(ev.calls[i].len)
    /\ ev.err = SliceBounds =>
          /\ ~WithinView(ComputedExtent(dev[ev.d]))
          /\ ev.calls = <<>>
          /\ crashed

\* A Recv handler has been called with a buffer of exactly 2^20 bytes.
C20_Witness ==
    /\ ev.op = "goRecvCallback"
    /\ Len(ev.calls) = 1
    /\ ev.calls[1].len = U32(16, 0)
    /\ ComputedExtent(dev[ev.d]) = U32(16, 0)

====
